---- MODULE Spec2Model ----
(***************************************************************************)
(* churnguard: four stateless request handlers (start_conversation,        *)
(* send_message, handle_offer, get_conversation) over three DynamoDB       *)
(* tables.  Every handler invocation is a process whose steps are its      *)
(* store operations; each store operation is atomic and may fail.          *)
(* Generated uuids are modelled by the position a record takes in its      *)
(* table, so an id is fresh by construction and a table is a sequence in   *)
(* insertion order.  datetime.utcnow() reads a clock that never runs       *)
(* backwards.  Two history variables record what the code does not keep:   *)
(* raised[p], whether a store operation of invocation p raised, and        *)
(* overlap, whether some invocation began while another was in flight.     *)
(***************************************************************************)
EXTENDS Integers, Sequences, FiniteSets, TLC

(* ------------------------------ bounds -------------------------------- *)
NumProcs == 2
MaxConvs == 1
MaxMsgs == 7
MaxOffers == 2
MaxClock == 1

(* ------------------------- program constants -------------------------- *)
OfferThreshold == 4
TriggerChance == 2
DefaultChance == 4

Procs == 1..NumProcs
Users == {"u1", "u2"}
Draws == 0..9

VARIABLES conversations_table, messages_table, offers_table, clock, pc, req, resp, loc,
          raised, overlap

vars == <<conversations_table, messages_table, offers_table, clock, pc, req, resp, loc,
          raised, overlap>>
tables == <<conversations_table, messages_table, offers_table>>

(* ------------------------------ requests ------------------------------ *)
NoText == ""
NoId == 0
NoTime == 0 - 1
StartFields == <<"userId", "subscriptionId", "reason", "reasonText">>
MessageFields == <<"conversationId", "message", "userId">>
OfferFields == <<"conversationId", "offerId", "action", "userId">>

Range(s) == {s[i] : i \in DOMAIN s}

Request(kind, body, present, conversationId, userId, message, offerId, action, reason) ==
  [kind |-> kind, body |-> body, present |-> present,
   conversationId |-> conversationId, userId |-> userId, message |-> message,
   offerId |-> offerId, action |-> action, reason |-> reason,
   subscriptionId |-> IF kind = "start" /\ "subscriptionId" \in present THEN "sub1" ELSE NoText,
   reasonText |-> IF kind = "start" /\ "reasonText" \in present THEN "why" ELSE NoText]

NoReq == Request("none", "absent", {}, NoId, NoText, NoText, NoId, NoText, NoText)

(* The first required field, in declared order, that the body lacks. *)
RECURSIVE FirstMissing(_, _)
FirstMissing(fields, present) ==
  IF fields = <<>> THEN NoText
  ELSE IF Head(fields) \notin present THEN Head(fields)
  ELSE FirstMissing(Tail(fields), present)

(* ------------------------------ responses ----------------------------- *)
NoData == [none |-> TRUE]
create_response(status_code, error, data) ==
  [statusCode |-> status_code, error |-> error, data |-> data]
NoResp == create_response(0, NoText, NoData)

MissingField(field) ==
  CASE field = "userId" -> "Missing required field: userId"
    [] field = "subscriptionId" -> "Missing required field: subscriptionId"
    [] field = "reason" -> "Missing required field: reason"
    [] field = "reasonText" -> "Missing required field: reasonText"
    [] field = "conversationId" -> "Missing required field: conversationId"
    [] field = "message" -> "Missing required field: message"
    [] field = "offerId" -> "Missing required field: offerId"
    [] field = "action" -> "Missing required field: action"

(* A handler's local variables between two of its store operations;       *)
(* startCount records how many messages the conversation held when the    *)
(* request began.                                                          *)
NoLoc == [timestamp |-> NoTime, conversation_id |-> NoId, reason |-> NoText,
          startCount |-> 0, message_count |-> 0, offer |-> NoData, offer_id |-> NoId,
          conversation |-> NoData, messages |-> <<>>]

(* ------------------------------- store -------------------------------- *)
ConvIds == 1..Len(conversations_table)
OfferIds == 1..Len(offers_table)
MsgIdx == 1..Len(messages_table)

RECURSIVE SelectIdx(_, _, _)
SelectIdx(table, cid, i) ==
  IF i > Len(table) THEN <<>>
  ELSE IF table[i].conversationId = cid THEN <<table[i]>> \o SelectIdx(table, cid, i + 1)
  ELSE SelectIdx(table, cid, i + 1)

(* Items of a table whose conversationId is cid, in insertion order. *)
ByConversation(table, cid) == SelectIdx(table, cid, 1)

(* Mutant: the key of the newest item is used again, so the put replaces *)
(* that item.                                                             *)
put_item_Overwrite(table, item) ==
  IF table = <<>> THEN <<item>> ELSE [table EXCEPT ![Len(table)] = item]

(* Table.put_item under a fresh uuid key: the item takes the next place. *)
put_item(table, item) == Append(table, item)

(* boto3's TypeSerializer raises TypeError on a Python float. *)
Serializable(item) == "float" \notin item.numbers

(* Every number of an item comes back from the table as a Decimal. *)
Deserialized(item) == [item EXCEPT !.numbers = {"Decimal"}]

(* json.dumps without `default` raises TypeError on a Decimal. *)
JsonSerializable(items) == \A i \in DOMAIN items : "Decimal" \notin items[i].numbers

(* ------------------------------ responder ------------------------------ *)
generate_initial_message(reason, reason_text) ==
  IF reason \in {"too_expensive", "not_using", "technical_issues", "found_alternative"}
  THEN [template |-> "initial", key |-> reason, arg |-> NoText]
  ELSE IF reason = "other"
  THEN [template |-> "initial", key |-> "other", arg |-> reason_text]
  ELSE [template |-> "initial", key |-> "default", arg |-> reason_text]

(* str.lower() on the texts the model uses. *)
Lower(s) ==
  CASE s = "Too EXPENSIVE" -> "too expensive"
    [] s = "PROBLEM with cost" -> "problem with cost"
    [] s = "50% Off for 3 Months" -> "50% off for 3 months"
    [] s = "2 Months Free" -> "2 months free"
    [] s = "1 Month Free + Priority Support" -> "1 month free + priority support"
    [] s = "Pause + Technical Resolution" -> "pause + technical resolution"
    [] s = "Pause for 3 Months" -> "pause for 3 months"
    [] s = "70% Off for 6 Months" -> "70% off for 6 months"
    [] s = "40% Off for 4 Months" -> "40% off for 4 months"
    [] s = "Flexible Pause Option" -> "flexible pause option"
    [] OTHER -> s

(* The keywords that occur as substrings of s (case-sensitive, as `in`). *)
WordsIn(s) ==
  CASE s = "too expensive" -> {"expensive"}
    [] s = "problem with cost" -> {"problem", "cost"}
    [] s = "no money" -> {"money"}
    [] s = "a bug" -> {"bug"}
    [] s = "busy" -> {"busy"}
    [] s = "found better" -> {"found", "better"}
    [] OTHER -> {}

Texts == {"hello", "Too EXPENSIVE", "PROBLEM with cost", "no money", "a bug", "busy",
          "found better"}

AnyWord(words, s) == words \cap WordsIn(s) # {}

(* The reply is drawn by random.choice from a fixed pool; the content     *)
(* records the pool it was drawn from.                                     *)
generate_ai_response(user_message) ==
  LET user_message_lower == Lower(user_message)
      pool == IF AnyWord({"expensive", "cost", "money", "afford", "price"}, user_message_lower)
              THEN "pricing"
              ELSE IF AnyWord({"technical", "bug", "error", "problem", "issue"}, user_message_lower)
              THEN "technical"
              ELSE IF AnyWord({"time", "busy", "use", "using"}, user_message_lower)
              THEN "usage"
              ELSE IF AnyWord({"competitor", "alternative", "found", "better"}, user_message_lower)
              THEN "competitor"
              ELSE "generic"
  IN [template |-> "reply", key |-> pool, arg |-> NoText]

trigger_words == {"expensive", "cost", "technical", "problem", "issue", "better", "competitor"}

(* Mutant: the guard lets the count one below the threshold through. *)
should_generate_offer_OffByOne(message_count, user_message, draw) ==
  IF message_count < OfferThreshold - 1 THEN FALSE
  ELSE IF AnyWord(trigger_words, Lower(user_message)) THEN draw > TriggerChance
  ELSE draw > DefaultChance

(* draw is random.random() in tenths: draw > 2 is random.random() > 0.2. *)
should_generate_offer(message_count, user_message, draw) ==
  IF message_count < OfferThreshold THEN FALSE
  ELSE IF AnyWord(trigger_words, Lower(user_message)) THEN draw > TriggerChance
  ELSE draw > DefaultChance

(* ---------------------------- offer generator -------------------------- *)
(* A candidate's savings are ints; its details hold the float 29.99 when  *)
(* they name an originalPrice.  numbers is the set of number types in the *)
(* item.                                                                   *)
Candidate(type, title, total, details) ==
  [type |-> type, title |-> title,
   numbers |-> IF "originalPrice" \in details THEN {"int", "float"} ELSE {"int"}]

offer_types(reason) ==
  IF reason = "too_expensive"
  THEN <<Candidate("discount", "50% Off for 3 Months", 45, {"originalPrice", "newPrice"}),
         Candidate("discount", "2 Months Free", 60, {"originalPrice", "freeMonths"})>>
  ELSE IF reason = "technical_issues"
  THEN <<Candidate("discount", "1 Month Free + Priority Support", 30,
                   {"originalPrice", "freeMonths"}),
         Candidate("pause", "Pause + Technical Resolution", 30,
                   {"pauseDuration", "freeMonths"})>>
  ELSE IF reason = "not_using"
  THEN <<Candidate("pause", "Pause for 3 Months", 90, {"pauseDuration"}),
         Candidate("discount", "70% Off for 6 Months", 126, {"originalPrice", "newPrice"})>>
  ELSE <<Candidate("discount", "40% Off for 4 Months", 48, {"originalPrice", "newPrice"}),
         Candidate("pause", "Flexible Pause Option", 60, {"pauseDuration"})>>

(* choice is the index random.choice picks.  Of savings and details the   *)
(* record keeps the number types; description, terms, createdAt and       *)
(* expiresAt, which no handler reads back, are left out.                  *)
generate_retention_offer(conversation_id, reason, choice) ==
  LET selected_offer == offer_types(reason)[choice]
  IN [conversationId |-> conversation_id,
      type |-> selected_offer.type,
      title |-> selected_offer.title,
      numbers |-> selected_offer.numbers,
      status |-> "pending"]

generate_final_message(action, offer) ==
  IF action = "accept"
  THEN [template |-> "final", key |-> "accept", arg |-> Lower(offer.title)]
  ELSE [template |-> "final", key |-> "reject", arg |-> NoText]

Message(conversation_id, content, sender, timestamp) ==
  [conversationId |-> conversation_id, content |-> content, sender |-> sender,
   timestamp |-> timestamp]

UserContent(text) == [template |-> "user", key |-> NoText, arg |-> text]

(* ------------------------- process bookkeeping ------------------------- *)
InFlight(q) == pc[q] \notin {"idle", "done"}

(* Ids are uuid4 values: a caller can name an id only after a response    *)
(* carried it, and an id it makes up is never the one a later call        *)
(* generates.  ConvNames and OfferNames are the ids a request may carry:  *)
(* every place of the table and one id that is never generated.           *)
UnknownConv == MaxConvs + NumProcs + 1
UnknownOffer == MaxOffers + NumProcs + 1
ConvNames == 1..(MaxConvs + NumProcs) \cup {UnknownConv}
OfferNames == 1..(MaxOffers + NumProcs) \cup {UnknownOffer}

(* The Start Handler returns the conversation's id with its first         *)
(* message; the Message Handler returns an offer's id after its last      *)
(* store operation.                                                        *)
Addressable(r) ==
  /\ r.conversationId \in ConvIds => ByConversation(messages_table, r.conversationId) # <<>>
  /\ r.conversationId \notin ConvIds => r.conversationId \in {NoId, UnknownConv}
  /\ r.offerId \in OfferIds =>
       \A q \in Procs : ~(pc[q] = "m_touch" /\ loc[q].offer_id = r.offerId)
  /\ r.offerId \notin OfferIds => r.offerId \in {NoId, UnknownOffer}

Begin(p, r) ==
  /\ pc[p] = "idle"
  /\ Addressable(r)
  /\ req' = [req EXCEPT ![p] = r]
  /\ overlap' = (overlap \/ \E q \in Procs \ {p} : InFlight(q))
  /\ UNCHANGED <<tables, raised>>

Respond(p, r) ==
  /\ pc' = [pc EXCEPT ![p] = "done"]
  /\ resp' = [resp EXCEPT ![p] = r]
  /\ loc' = [loc EXCEPT ![p] = NoLoc]

Goto(p, label) ==
  /\ pc' = [pc EXCEPT ![p] = label]
  /\ resp' = [resp EXCEPT ![p] = NoResp]

InternalError == create_response(500, "Internal server error", NoData)

(* Mutant: the exception leaves the handler and no response is built. *)
Raise_Escapes(p) ==
  /\ raised' = [raised EXCEPT ![p] = TRUE]
  /\ Respond(p, NoResp)

(* Mutant: the handler answers as if the operation had gone through. *)
Raise_Swallowed(p) ==
  /\ raised' = [raised EXCEPT ![p] = TRUE]
  /\ Respond(p, create_response(200, NoText, NoData))

(* The store operation raises; the handler's `except Exception` answers. *)
Raise(p) ==
  /\ raised' = [raised EXCEPT ![p] = TRUE]
  /\ Respond(p, InternalError)

(* The response has been delivered; the slot is free for the next call. *)
Return(p) ==
  /\ pc[p] = "done"
  /\ pc' = [pc EXCEPT ![p] = "idle"]
  /\ req' = [req EXCEPT ![p] = NoReq]
  /\ resp' = [resp EXCEPT ![p] = NoResp]
  /\ raised' = [raised EXCEPT ![p] = FALSE]
  /\ UNCHANGED <<tables, clock, loc, overlap>>

(* ------------------ start_conversation.handler ------------------------- *)
StartBegin(p, r) ==
  /\ r.kind = "start"
  /\ Begin(p, r)
  /\ \/ /\ r.body = "absent"
        /\ Respond(p, create_response(400, "Missing request body", NoData))
        /\ UNCHANGED clock
     \/ /\ r.body = "invalid"
        /\ Respond(p, create_response(400, "Invalid JSON in request body", NoData))
        /\ UNCHANGED clock
     \/ /\ r.body = "scalar"
        /\ Respond(p, InternalError)
        /\ UNCHANGED clock
     \/ /\ r.body = "ok"
        /\ FirstMissing(StartFields, r.present) # NoText
        /\ Respond(p, create_response(400, MissingField(FirstMissing(StartFields, r.present)), NoData))
        /\ UNCHANGED clock
     \/ /\ r.body = "ok"
        /\ FirstMissing(StartFields, r.present) = NoText
        /\ \E now \in clock..MaxClock :
             /\ clock' = now
             /\ loc' = [loc EXCEPT ![p] = [NoLoc EXCEPT !.timestamp = now]]
        /\ Goto(p, "s_put_conv")

conversation_item(r, timestamp) ==
  [userId |-> r.userId, subscriptionId |-> r.subscriptionId, status |-> "active",
   outcome |-> "null", reason |-> r.reason, reasonText |-> r.reasonText,
   createdAt |-> timestamp, updatedAt |-> timestamp]

StartPutConversation(p) ==
  /\ pc[p] = "s_put_conv"
  /\ UNCHANGED <<messages_table, offers_table, clock, req, overlap>>
  /\ \/ /\ Raise(p)
        /\ UNCHANGED conversations_table
     \/ /\ conversations_table' =
             put_item(conversations_table, conversation_item(req[p], loc[p].timestamp))
        /\ loc' = [loc EXCEPT ![p].conversation_id = Len(conversations_table) + 1]
        /\ Goto(p, "s_put_msg")
        /\ UNCHANGED raised

(* Mutant: the first message is stored under no conversation. *)
initial_message_item_Unlinked(p) ==
  Message(NoId, generate_initial_message(req[p].reason, req[p].reasonText), "ai",
          loc[p].timestamp)

initial_message_item(p) ==
  Message(loc[p].conversation_id,
          generate_initial_message(req[p].reason, req[p].reasonText), "ai", loc[p].timestamp)

StartPutMessage(p) ==
  /\ pc[p] = "s_put_msg"
  /\ UNCHANGED <<conversations_table, offers_table, clock, req, overlap>>
  /\ \/ /\ Raise(p)
        /\ UNCHANGED messages_table
     \/ /\ messages_table' = put_item(messages_table, initial_message_item(p))
        /\ Respond(p, create_response(200, NoText,
             [id |-> loc[p].conversation_id,
              conversation |-> conversation_item(req[p], loc[p].timestamp),
              messages |-> <<initial_message_item(p)>>]))
        /\ UNCHANGED raised

(* ---------------------- send_message.handler --------------------------- *)
(* Mutant: the ownership comparison is left out. *)
get_conversation_AnyUser(conversation_id, user_id, failed) ==
  IF failed THEN NoData
  ELSE IF conversation_id \in ConvIds THEN conversations_table[conversation_id]
  ELSE NoData

(* Mutant: an id without a stored conversation is answered with an empty *)
(* conversation instead of None.                                          *)
get_conversation_Unverified(conversation_id, user_id, failed) ==
  IF failed THEN NoData
  ELSE IF conversation_id \notin ConvIds THEN [userId |-> user_id, reason |-> "other"]
  ELSE IF conversations_table[conversation_id].userId = user_id
  THEN conversations_table[conversation_id]
  ELSE NoData

(* get_conversation: the item when it exists and belongs to user_id; None *)
(* (NoData) otherwise, and also when the read raises (failed).            *)
get_conversation(conversation_id, user_id, failed) ==
  IF failed THEN NoData
  ELSE IF conversation_id \in ConvIds /\ conversations_table[conversation_id].userId = user_id
  THEN conversations_table[conversation_id]
  ELSE NoData

(* Mutant: the count leaves out the two messages the request wrote. *)
get_message_count_BeforeWrites(conversation_id, failed) ==
  IF failed \/ Len(ByConversation(messages_table, conversation_id)) < 2 THEN 0
  ELSE Len(ByConversation(messages_table, conversation_id)) - 2

(* get_message_count: the query's Count, or 0 when the query raises. *)
get_message_count(conversation_id, failed) ==
  IF failed THEN 0 ELSE Len(ByConversation(messages_table, conversation_id))

MessageBegin(p, r) ==
  /\ r.kind = "message"
  /\ Begin(p, r)
  /\ UNCHANGED clock
  /\ \/ /\ r.body = "absent"
        /\ Respond(p, create_response(400, "Missing request body", NoData))
     \/ /\ r.body = "invalid"
        /\ Respond(p, create_response(400, "Invalid JSON in request body", NoData))
     \/ /\ r.body = "scalar"
        /\ Respond(p, InternalError)
     \/ /\ r.body = "ok"
        /\ FirstMissing(MessageFields, r.present) # NoText
        /\ Respond(p, create_response(400, MissingField(FirstMissing(MessageFields, r.present)), NoData))
     \/ /\ r.body = "ok"
        /\ FirstMissing(MessageFields, r.present) = NoText
        /\ loc' = [loc EXCEPT ![p] =
             [NoLoc EXCEPT !.startCount = Len(ByConversation(messages_table, r.conversationId))]]
        /\ Goto(p, "m_get")

MessageGetConversation(p) ==
  /\ pc[p] = "m_get"
  /\ UNCHANGED <<tables, req, overlap>>
  /\ \E failed \in BOOLEAN :
       LET conversation == get_conversation(req[p].conversationId, req[p].userId, failed)
       IN /\ raised' = [raised EXCEPT ![p] = failed]
          /\ \/ /\ conversation = NoData
                /\ Respond(p, create_response(404, "Conversation not found", NoData))
                /\ UNCHANGED clock
             \/ /\ conversation # NoData
                /\ \E now \in clock..MaxClock :
                     /\ clock' = now
                     /\ loc' = [loc EXCEPT ![p].timestamp = now,
                                           ![p].conversation_id = req[p].conversationId,
                                           ![p].reason = conversation.reason]
                /\ Goto(p, "m_put_user")

user_message_item(p) ==
  Message(loc[p].conversation_id, UserContent(req[p].message), "user", loc[p].timestamp)

(* Mutant: the reply is stamped by a second reading of the clock. *)
ai_message_item_OwnTimestamp(p) ==
  Message(loc[p].conversation_id, generate_ai_response(req[p].message), "ai",
          loc[p].timestamp + 1)

ai_message_item(p) ==
  Message(loc[p].conversation_id, generate_ai_response(req[p].message), "ai", loc[p].timestamp)

MessagePutUser(p) ==
  /\ pc[p] = "m_put_user"
  /\ UNCHANGED <<conversations_table, offers_table, clock, req, overlap>>
  /\ \/ /\ Raise(p)
        /\ UNCHANGED messages_table
     \/ /\ messages_table' = put_item(messages_table, user_message_item(p))
        /\ Goto(p, "m_put_ai")
        /\ UNCHANGED <<loc, raised>>

MessagePutAi(p) ==
  /\ pc[p] = "m_put_ai"
  /\ UNCHANGED <<conversations_table, offers_table, clock, req, overlap>>
  /\ \/ /\ Raise(p)
        /\ UNCHANGED messages_table
     \/ /\ messages_table' = put_item(messages_table, ai_message_item(p))
        /\ Goto(p, "m_count")
        /\ UNCHANGED <<loc, raised>>

MessageCount(p) ==
  /\ pc[p] = "m_count"
  /\ UNCHANGED <<tables, clock, req, overlap>>
  /\ \E failed \in BOOLEAN, draw \in Draws :
       LET message_count == get_message_count(loc[p].conversation_id, failed)
       IN /\ raised' = [raised EXCEPT ![p] = failed]
          /\ \/ /\ should_generate_offer(message_count, req[p].message, draw)
                /\ \E choice \in 1..2 :
                     loc' = [loc EXCEPT ![p].message_count = message_count,
                                        ![p].offer = generate_retention_offer(
                                            loc[p].conversation_id, loc[p].reason, choice)]
                /\ Goto(p, "m_put_offer")
             \/ /\ ~should_generate_offer(message_count, req[p].message, draw)
                /\ loc' = [loc EXCEPT ![p].message_count = message_count]
                /\ Goto(p, "m_touch")

MessagePutOffer(p) ==
  /\ pc[p] = "m_put_offer"
  /\ UNCHANGED <<conversations_table, messages_table, clock, req, overlap>>
  /\ \/ /\ Raise(p)
        /\ UNCHANGED offers_table
     \/ /\ Serializable(loc[p].offer)
        /\ offers_table' = put_item(offers_table, Deserialized(loc[p].offer))
        /\ loc' = [loc EXCEPT ![p].offer_id = Len(offers_table) + 1]
        /\ Goto(p, "m_touch")
        /\ UNCHANGED raised

(* Mutant: the touch also puts the conversation back to active. *)
touched_Reactivates(conversation, timestamp) ==
  [conversation EXCEPT !.updatedAt = timestamp, !.status = "active"]

(* `SET updatedAt = :timestamp` *)
touched(conversation, timestamp) == [conversation EXCEPT !.updatedAt = timestamp]

MessageTouch(p) ==
  /\ pc[p] = "m_touch"
  /\ UNCHANGED <<messages_table, offers_table, clock, req, overlap>>
  /\ \/ /\ Raise(p)
        /\ UNCHANGED conversations_table
     \/ /\ conversations_table' =
             [conversations_table EXCEPT ![loc[p].conversation_id] =
                touched(conversations_table[loc[p].conversation_id], loc[p].timestamp)]
        /\ Respond(p, create_response(200, NoText,
             [message |-> ai_message_item(p), offer |-> loc[p].offer,
              offer_id |-> loc[p].offer_id]))
        /\ UNCHANGED raised

(* ----------------------- handle_offer.handler -------------------------- *)
(* Mutant: the action is not validated. *)
ValidAction_Any(action) == TRUE

ValidAction(action) == action \in {"accept", "reject"}

OfferBegin(p, r) ==
  /\ r.kind = "offer"
  /\ Begin(p, r)
  /\ UNCHANGED clock
  /\ \/ /\ r.body = "absent"
        /\ Respond(p, create_response(400, "Missing request body", NoData))
     \/ /\ r.body = "invalid"
        /\ Respond(p, create_response(400, "Invalid JSON in request body", NoData))
     \/ /\ r.body = "scalar"
        /\ Respond(p, InternalError)
     \/ /\ r.body = "ok"
        /\ FirstMissing(OfferFields, r.present) # NoText
        /\ Respond(p, create_response(400, MissingField(FirstMissing(OfferFields, r.present)), NoData))
     \/ /\ r.body = "ok"
        /\ FirstMissing(OfferFields, r.present) = NoText
        /\ ~ValidAction(r.action)
        /\ Respond(p, create_response(400, "Action must be \"accept\" or \"reject\"", NoData))
     \/ /\ r.body = "ok"
        /\ FirstMissing(OfferFields, r.present) = NoText
        /\ ValidAction(r.action)
        /\ loc' = [loc EXCEPT ![p] = NoLoc]
        /\ Goto(p, "o_get_conv")

(* `not conversation or conversation.get('userId') != user_id` *)
ConversationMissing(conversation_id, user_id) ==
  \/ conversation_id \notin ConvIds
  \/ /\ conversation_id \in ConvIds
     /\ conversations_table[conversation_id].userId # user_id

OfferGetConversation(p) ==
  /\ pc[p] = "o_get_conv"
  /\ UNCHANGED <<tables, clock, req, overlap>>
  /\ \/ Raise(p)
     \/ /\ ConversationMissing(req[p].conversationId, req[p].userId)
        /\ Respond(p, create_response(404, "Conversation not found", NoData))
        /\ UNCHANGED raised
     \/ /\ ~ConversationMissing(req[p].conversationId, req[p].userId)
        /\ loc' = [loc EXCEPT ![p].conversation_id = req[p].conversationId]
        /\ Goto(p, "o_get_offer")
        /\ UNCHANGED raised

(* Mutant: the offer is not compared with the request's conversation. *)
OfferMissing_AnyConversation(offer_id, conversation_id) == offer_id \notin OfferIds

(* `not offer or offer.get('conversationId') != conversation_id` *)
OfferMissing(offer_id, conversation_id) ==
  \/ offer_id \notin OfferIds
  \/ /\ offer_id \in OfferIds
     /\ offers_table[offer_id].conversationId # conversation_id

(* Mutant: the status check is left out. *)
OfferAvailable_Always(offer) == TRUE

(* `offer.get('status') != 'pending'` is the negation of this. *)
OfferAvailable(offer) == offer.status = "pending"

OfferGetOffer(p) ==
  /\ pc[p] = "o_get_offer"
  /\ UNCHANGED <<tables, req, overlap>>
  /\ \/ /\ Raise(p)
        /\ UNCHANGED clock
     \/ /\ OfferMissing(req[p].offerId, loc[p].conversation_id)
        /\ Respond(p, create_response(404, "Offer not found", NoData))
        /\ UNCHANGED <<clock, raised>>
     \/ /\ ~OfferMissing(req[p].offerId, loc[p].conversation_id)
        /\ ~OfferAvailable(offers_table[req[p].offerId])
        /\ Respond(p, create_response(400, "Offer is no longer available", NoData))
        /\ UNCHANGED <<clock, raised>>
     \/ /\ ~OfferMissing(req[p].offerId, loc[p].conversation_id)
        /\ OfferAvailable(offers_table[req[p].offerId])
        /\ \E now \in clock..MaxClock :
             /\ clock' = now
             /\ loc' = [loc EXCEPT ![p].timestamp = now,
                                   ![p].offer = offers_table[req[p].offerId],
                                   ![p].offer_id = req[p].offerId]
        /\ Goto(p, "o_upd_offer")
        /\ UNCHANGED raised

(* Mutant: the update writes the status the offer already has. *)
OfferStatus_Unchanged(action) == "pending"

(* Mutant: the update leaves the outcome unset. *)
Outcome_Unset(action) == "null"

(* Mutant: a rejection puts the offer back to pending. *)
OfferStatus_Reopens(action) == IF action = "accept" THEN "accepted" ELSE "pending"

OfferStatus(action) == IF action = "accept" THEN "accepted" ELSE "rejected"
Outcome(action) == IF action = "accept" THEN "retained" ELSE "cancelled"

OfferUpdateOffer(p) ==
  /\ pc[p] = "o_upd_offer"
  /\ UNCHANGED <<conversations_table, messages_table, clock, req, overlap>>
  /\ \/ /\ Raise(p)
        /\ UNCHANGED offers_table
     \/ /\ offers_table' = [offers_table EXCEPT
             ![loc[p].offer_id].status = OfferStatus(req[p].action)]
        /\ Goto(p, "o_upd_conv")
        /\ UNCHANGED <<loc, raised>>

OfferUpdateConversation(p) ==
  /\ pc[p] = "o_upd_conv"
  /\ UNCHANGED <<messages_table, offers_table, clock, req, overlap>>
  /\ \/ /\ Raise(p)
        /\ UNCHANGED conversations_table
     \/ /\ conversations_table' = [conversations_table EXCEPT
             ![loc[p].conversation_id].status = "completed",
             ![loc[p].conversation_id].outcome = Outcome(req[p].action),
             ![loc[p].conversation_id].updatedAt = loc[p].timestamp]
        /\ Goto(p, "o_put_msg")
        /\ UNCHANGED <<loc, raised>>

(* Mutant: the closing message carries the conversation's createdAt. *)
final_message_item_Stale(p) ==
  Message(loc[p].conversation_id, generate_final_message(req[p].action, loc[p].offer),
          "ai", conversations_table[loc[p].conversation_id].createdAt)

(* Mutant: the closing message is stored as the user's. *)
final_message_item_FromUser(p) ==
  Message(loc[p].conversation_id, generate_final_message(req[p].action, loc[p].offer),
          "user", loc[p].timestamp)

final_message_item(p) ==
  Message(loc[p].conversation_id, generate_final_message(req[p].action, loc[p].offer),
          "ai", loc[p].timestamp)

OfferPutMessage(p) ==
  /\ pc[p] = "o_put_msg"
  /\ UNCHANGED <<conversations_table, offers_table, clock, req, overlap>>
  /\ \/ /\ Raise(p)
        /\ UNCHANGED messages_table
     \/ /\ messages_table' = put_item(messages_table, final_message_item(p))
        /\ Respond(p, create_response(200, NoText,
             [outcome |-> Outcome(req[p].action), message |-> final_message_item(p)]))
        /\ UNCHANGED raised

(* --------------------- get_conversation.handler ------------------------ *)
RECURSIVE InsertByTimestamp(_, _)
InsertByTimestamp(sorted, m) ==
  IF sorted = <<>> THEN <<m>>
  ELSE IF Head(sorted).timestamp <= m.timestamp
  THEN <<Head(sorted)>> \o InsertByTimestamp(Tail(sorted), m)
  ELSE <<m>> \o sorted

(* The index query with ScanIndexForward=True: ascending timestamp. *)
RECURSIVE SortByTimestamp(_)
SortByTimestamp(items) ==
  IF items = <<>> THEN <<>>
  ELSE InsertByTimestamp(SortByTimestamp(SubSeq(items, 1, Len(items) - 1)), items[Len(items)])

ReadBegin(p, r) ==
  /\ r.kind = "read"
  /\ Begin(p, r)
  /\ UNCHANGED clock
  /\ \/ /\ r.body = "scalar"
        /\ Respond(p, InternalError)
     \/ /\ r.body = "ok" /\ r.conversationId = NoId
        /\ Respond(p, create_response(400, "Missing conversation ID", NoData))
     \/ /\ r.body = "ok" /\ r.conversationId # NoId
        /\ loc' = [loc EXCEPT ![p] = NoLoc]
        /\ Goto(p, "r_get")

ReadGetConversation(p) ==
  /\ pc[p] = "r_get"
  /\ UNCHANGED <<tables, clock, req, overlap>>
  /\ \/ Raise(p)
     \/ /\ req[p].conversationId \notin ConvIds
        /\ Respond(p, create_response(404, "Conversation not found", NoData))
        /\ UNCHANGED raised
     \/ /\ req[p].conversationId \in ConvIds
        /\ loc' = [loc EXCEPT ![p].conversation_id = req[p].conversationId,
                              ![p].conversation = conversations_table[req[p].conversationId]]
        /\ Goto(p, "r_msgs")
        /\ UNCHANGED raised

ReadQueryMessages(p) ==
  /\ pc[p] = "r_msgs"
  /\ UNCHANGED <<tables, clock, req, overlap>>
  /\ \/ Raise(p)
     \/ /\ loc' = [loc EXCEPT ![p].messages =
             SortByTimestamp(ByConversation(messages_table, loc[p].conversation_id))]
        /\ Goto(p, "r_offers")
        /\ UNCHANGED raised

ReadQueryOffers(p) ==
  /\ pc[p] = "r_offers"
  /\ UNCHANGED <<tables, clock, req, overlap>>
  /\ \/ Raise(p)
     \/ /\ JsonSerializable(ByConversation(offers_table, loc[p].conversation_id))
        /\ Respond(p, create_response(200, NoText,
             [id |-> loc[p].conversation_id,
              conversation |-> loc[p].conversation,
              messages |-> loc[p].messages,
              offers |-> ByConversation(offers_table, loc[p].conversation_id)]))
        /\ UNCHANGED raised
     \/ /\ ~JsonSerializable(ByConversation(offers_table, loc[p].conversation_id))
        /\ Respond(p, InternalError)
        /\ UNCHANGED raised

(* ------------------------------- inputs -------------------------------- *)
Owners == {"u1"}
StartReasons == {"not_using"}
MsgTexts == {"Too EXPENSIVE"}
Actions == {"accept", "reject"}

StartRequests ==
  {Request("start", "ok", Range(StartFields), NoId, u, NoText, NoId, NoText, r) :
     u \in Owners, r \in StartReasons}
MessageRequests ==
  {Request("message", "ok", Range(MessageFields), c, u, t, NoId, NoText, NoText) :
     c \in ConvNames, u \in Users, t \in MsgTexts}
OfferRequests ==
  {Request("offer", "ok", Range(OfferFields), c, u, NoText, o, a, NoText) :
     c \in ConvNames, u \in Users, o \in OfferNames, a \in Actions}
ReadRequests ==
  {Request("read", "ok", {}, c, NoText, NoText, NoId, NoText, NoText) : c \in {NoId} \cup ConvNames}

(* Requests that fail validation: no body, a body that is not JSON, a     *)
(* body that is JSON but no container (null, a number: `field not in      *)
(* body` raises TypeError), a body lacking required fields, an action     *)
(* that is neither accept nor reject; for the Read Handler, an event      *)
(* whose pathParameters is null (`.get` raises AttributeError).           *)
Malformed(kind, fields) ==
  {Request(kind, b, {}, NoId, NoText, NoText, NoId, NoText, NoText) :
     b \in {"absent", "invalid", "scalar"}}
  \cup {Request(kind, "ok", present, NoId, NoText, NoText, NoId, NoText, NoText) :
          present \in (SUBSET Range(fields)) \ {Range(fields)}}
NoPathParameters ==
  {Request("read", "scalar", {}, NoId, NoText, NoText, NoId, NoText, NoText)}
BadAction ==
  {Request("offer", "ok", Range(OfferFields), c, "u1", NoText, UnknownOffer, "maybe", NoText) :
     c \in ConvNames}

(* The store operations of an invocation already begun. *)
Steps(p) ==
  \/ StartPutConversation(p)
  \/ StartPutMessage(p)
  \/ MessageGetConversation(p)
  \/ MessagePutUser(p)
  \/ MessagePutAi(p)
  \/ MessageCount(p)
  \/ MessagePutOffer(p)
  \/ MessageTouch(p)
  \/ OfferGetConversation(p)
  \/ OfferGetOffer(p)
  \/ OfferUpdateOffer(p)
  \/ OfferUpdateConversation(p)
  \/ OfferPutMessage(p)
  \/ ReadGetConversation(p)
  \/ ReadQueryMessages(p)
  \/ ReadQueryOffers(p)

(* Store contents the handlers produce from the empty store by serialized *)
(* calls: nothing; one Start; one exchange after it; a second exchange    *)
(* that drew an offer; a third exchange that drew another.                *)
SeedStart == Request("start", "ok", Range(StartFields), NoId, "u1", NoText, NoId, NoText, "not_using")
SeedInitial == <<Message(1, generate_initial_message(SeedStart.reason, SeedStart.reasonText), "ai", 0)>>
SeedExchange ==
  <<Message(1, UserContent("Too EXPENSIVE"), "user", 0),
    Message(1, generate_ai_response("Too EXPENSIVE"), "ai", 0)>>
Seeds ==
  {<< <<>>, <<>>, <<>> >>,
   << <<conversation_item(SeedStart, 0)>>, SeedInitial, <<>> >>,
   << <<conversation_item(SeedStart, 0)>>, SeedInitial \o SeedExchange, <<>> >>,
   << <<conversation_item(SeedStart, 0)>>, SeedInitial \o SeedExchange \o SeedExchange,
      <<Deserialized(generate_retention_offer(1, "not_using", 1))>> >>,
   << <<conversation_item(SeedStart, 0)>>,
      SeedInitial \o SeedExchange \o SeedExchange \o SeedExchange,
      <<Deserialized(generate_retention_offer(1, "not_using", 1)),
        Deserialized(generate_retention_offer(1, "not_using", 1))>> >>}

InitProcs ==
  /\ clock = 0
  /\ pc = [p \in Procs |-> "idle"]
  /\ req = [p \in Procs |-> NoReq]
  /\ resp = [p \in Procs |-> NoResp]
  /\ loc = [p \in Procs |-> NoLoc]
  /\ raised = [p \in Procs |-> FALSE]
  /\ overlap = FALSE

Init ==
  /\ conversations_table = <<>>
  /\ messages_table = <<>>
  /\ offers_table = <<>>
  /\ InitProcs

SeededInit ==
  /\ \E seed \in Seeds :
       /\ conversations_table = seed[1]
       /\ messages_table = seed[2]
       /\ offers_table = seed[3]
  /\ InitProcs

(* Concurrent calls: every process is one handler invocation on a store   *)
(* left by earlier calls, and the invocations interleave at their store   *)
(* operations.                                                             *)
Next ==
  \E p \in Procs :
    \/ \E r \in StartRequests : StartBegin(p, r)
    \/ \E r \in MessageRequests : MessageBegin(p, r)
    \/ \E r \in OfferRequests : OfferBegin(p, r)
    \/ \E r \in ReadRequests : ReadBegin(p, r)
    \/ Steps(p)

Spec == SeededInit /\ [][Next]_vars

(* Serialized calls from the empty store: one invocation at a time, any   *)
(* request, well-formed or not, while the tables have room for what the   *)
(* invocation may write.                                                   *)
Room(convs, msgs, offers) ==
  /\ Len(conversations_table) + convs <= MaxConvs
  /\ Len(messages_table) + msgs <= MaxMsgs
  /\ Len(offers_table) + offers <= MaxOffers

SerialNext ==
  \/ \E r \in StartRequests : Room(1, 1, 0) /\ StartBegin(1, r)
  \/ \E r \in MessageRequests : Room(0, 2, 1) /\ MessageBegin(1, r)
  \/ \E r \in OfferRequests : Room(0, 1, 0) /\ OfferBegin(1, r)
  \/ \E r \in ReadRequests \cup NoPathParameters : ReadBegin(1, r)
  \/ \E r \in Malformed("start", StartFields) : StartBegin(1, r)
  \/ \E r \in Malformed("message", MessageFields) : MessageBegin(1, r)
  \/ \E r \in Malformed("offer", OfferFields) \cup BadAction : OfferBegin(1, r)
  \/ Steps(1)
  \/ Return(1)

SpecSerial == Init /\ [][SerialNext]_vars

(* Every invocation begun runs on: the runtime executes a handler to its  *)
(* return.  Requests need not arrive, so the Begin steps are not fair.    *)
FairSerial == SpecSerial /\ WF_vars(Steps(1))

(* Pure functions: should_generate_offer applied to every message count  *)
(* up to MaxMsgs, every text and every draw; generate_retention_offer     *)
(* applied to every reason and every choice.                              *)
Reasons == {"too_expensive", "not_using", "technical_issues", "found_alternative", "other",
            "unrecognized"}

PureInit ==
  /\ conversations_table = <<>>
  /\ messages_table = <<>>
  /\ offers_table = <<>>
  /\ clock = 0
  /\ pc = [p \in Procs |-> "idle"]
  /\ resp = [p \in Procs |-> NoResp]
  /\ raised = [p \in Procs |-> FALSE]
  /\ overlap = FALSE
  /\ \/ \E n \in 0..MaxMsgs, text \in Texts :
          /\ req = [p \in Procs |->
               Request("should_generate_offer", "ok", {}, NoId, NoText, text, NoId, NoText, NoText)]
          /\ loc = [p \in Procs |-> [NoLoc EXCEPT !.message_count = n]]
     \/ \E reason \in Reasons :
          /\ req = [p \in Procs |->
               Request("generate_retention_offer", "ok", {}, 1, NoText, NoText, NoId, NoText, reason)]
          /\ loc = [p \in Procs |-> NoLoc]

ShouldGenerateOffer(p) ==
  /\ pc[p] = "idle"
  /\ req[p].kind = "should_generate_offer"
  /\ \E draw \in Draws :
       resp' = [resp EXCEPT ![p] = create_response(0, NoText,
         [result |-> should_generate_offer(loc[p].message_count, req[p].message, draw),
          draw |-> draw])]
  /\ pc' = [pc EXCEPT ![p] = "done"]
  /\ UNCHANGED <<tables, clock, req, loc, raised, overlap>>

GenerateRetentionOffer(p) ==
  /\ pc[p] = "idle"
  /\ req[p].kind = "generate_retention_offer"
  /\ \E choice \in 1..2 :
       resp' = [resp EXCEPT ![p] = create_response(0, NoText,
         [offer |-> generate_retention_offer(req[p].conversationId, req[p].reason, choice),
          choice |-> choice])]
  /\ pc' = [pc EXCEPT ![p] = "done"]
  /\ UNCHANGED <<tables, clock, req, loc, raised, overlap>>

PureNext == \E p \in Procs : ShouldGenerateOffer(p) \/ GenerateRetentionOffer(p)

SpecPure == PureInit /\ [][PureNext]_vars

(* ------------------------------- claims -------------------------------- *)
Conv(c) == conversations_table[c]
PendingOffers(c) ==
  {o \in OfferIds : offers_table[o].conversationId = c /\ offers_table[o].status = "pending"}
Moves(p) == pc'[p] # pc[p]

(* C1: every stored conversation has outcome null exactly when its status *)
(* is active.                                                              *)
C1_OutcomeNullIffActive ==
  \A c \in ConvIds : (Conv(c).outcome = "null") <=> (Conv(c).status = "active")

C1_Witness ==
  \E c \in ConvIds : Conv(c).status = "completed" /\ Conv(c).outcome = "cancelled"

(* C2: once a conversation is completed with an outcome, no later handler *)
(* invocation changes its status or its outcome (calls serialized).       *)
C2_OutcomeTerminal ==
  [][~overlap' =>
       \A c \in ConvIds :
         Conv(c).status = "completed" /\ Conv(c).outcome \in {"retained", "cancelled"}
           => /\ conversations_table'[c].status = Conv(c).status
              /\ conversations_table'[c].outcome = Conv(c).outcome]_vars

(* An Offer Handler invocation writes the status of its offer. *)
WritesOffer(p) == pc[p] = "o_upd_offer" /\ pc'[p] = "o_upd_conv"

WrittenOnce ==
  /\ \A p \in Procs : WritesOffer(p) => offers_table[loc[p].offer_id].status = "pending"
  /\ \A o \in OfferIds :
       offers_table'[o].status # offers_table[o].status
         => /\ offers_table[o].status = "pending"
            /\ offers_table'[o].status \in {"accepted", "rejected"}

(* C3 as stated: in any interleaving of Offer Handler invocations the     *)
(* status of an offer is written at most once, from pending to accepted   *)
(* or rejected.                                                            *)
C3_WrittenOnceAnyInterleaving == [][WrittenOnce]_vars

(* C3 amended: when the Offer Handler invocations are serialized, the     *)
(* status of an offer is written at most once, from pending to accepted   *)
(* or rejected, and never again.                                           *)
C3_WrittenOnceSerialized == [][~overlap' => WrittenOnce]_vars

C3_Witness ==
  /\ ~overlap
  /\ \E p, q \in Procs :
       /\ pc[p] = "done" /\ req[p].kind = "offer" /\ resp[p].statusCode = 200
       /\ pc[q] = "done" /\ req[q].kind = "offer" /\ req[q].offerId = req[p].offerId
       /\ resp[q].error = "Offer is no longer available"

(* C4: under serialized calls a valid Offer Handler call on a pending     *)
(* offer goes on to its writes and, no store operation raising, returns   *)
(* 200 with the outcome matching its action; a valid call on an offer     *)
(* that is no longer pending returns 400 "Offer is no longer available"   *)
(* and leaves the three tables unchanged; an offer that is no longer      *)
(* pending is never changed again.                                         *)
C4_FirstCallWinsLaterCallsRefused ==
  [][/\ \A p \in Procs :
          req[p].kind = "offer" /\ pc[p] = "o_get_offer" /\ Moves(p) /\ ~raised'[p]
          /\ ~OfferMissing(req[p].offerId, req[p].conversationId)
            => /\ tables' = tables
               /\ IF offers_table[req[p].offerId].status = "pending"
                  THEN pc'[p] = "o_upd_offer"
                  ELSE /\ pc'[p] = "done"
                       /\ resp'[p].statusCode = 400
                       /\ resp'[p].error = "Offer is no longer available"
     /\ \A p \in Procs :
          req[p].kind = "offer" /\ pc[p] \in {"o_upd_offer", "o_upd_conv", "o_put_msg"}
          /\ pc'[p] = "done" /\ ~raised'[p]
            => /\ resp'[p].statusCode = 200
               /\ resp'[p].data.outcome = IF req[p].action = "accept" THEN "retained" ELSE "cancelled"
               /\ conversations_table'[req[p].conversationId].outcome = resp'[p].data.outcome
               /\ offers_table'[req[p].offerId].status =
                    IF req[p].action = "accept" THEN "accepted" ELSE "rejected"
     /\ \A o \in OfferIds :
          offers_table[o].status # "pending" => offers_table'[o] = offers_table[o]]_vars

C4_Witness ==
  \E p \in Procs :
    /\ pc[p] = "done" /\ req[p].kind = "offer"
    /\ resp[p].statusCode = 400 /\ resp[p].error = "Offer is no longer available"
    /\ offers_table[req[p].offerId].status = "accepted"
    /\ Conv(req[p].conversationId).outcome = "retained"

(* C5: in every reachable state each conversation has at most one offer   *)
(* with status pending.                                                    *)
C5_AtMostOnePending == \A c \in ConvIds : Cardinality(PendingOffers(c)) <= 1

(* The request names an existing conversation stored under another user. *)
NotOwner(r) ==
  /\ r.conversationId \in ConvIds
  /\ Conv(r.conversationId).userId # r.userId

(* C6: a Message Handler or Offer Handler request whose userId differs    *)
(* from the stored userId of the existing conversation it names is        *)
(* answered 404 at the conversation lookup (500 when the Offer Handler's  *)
(* lookup itself raises) and writes nothing to the three tables.          *)
C6_NotOwnerIs404AndWritesNothing ==
  [][\A p \in Procs :
       /\ pc[p] = "idle" /\ Moves(p) /\ req'[p].kind \in {"message", "offer"}
            => tables' = tables
       /\ req[p].kind \in {"message", "offer"} /\ InFlight(p) /\ NotOwner(req[p]) /\ Moves(p)
            => /\ tables' = tables
               /\ pc'[p] = "done"
               /\ \/ /\ resp'[p].statusCode = 404
                     /\ resp'[p].error = "Conversation not found"
                  \/ /\ req[p].kind = "offer" /\ raised'[p]
                     /\ resp'[p].statusCode = 500]_vars

C6_Witness ==
  \E p, q \in Procs :
    /\ pc[p] = "done" /\ req[p].kind = "message" /\ NotOwner(req[p])
    /\ resp[p].statusCode = 404 /\ ~raised[p]
    /\ pc[q] = "done" /\ req[q].kind = "offer" /\ NotOwner(req[q])
    /\ resp[q].statusCode = 404

(* C7: an invocation in which a store operation raised returns 500, never *)
(* 404 and never 200.                                                      *)
C7_StoreFailureIs500 ==
  \A p \in Procs : pc[p] = "done" /\ raised[p] => resp[p].statusCode = 500

C9_NoOfferBelowFour ==
  \A p \in Procs :
    pc[p] = "done" /\ req[p].kind = "should_generate_offer" =>
      /\ loc[p].message_count < 4 => resp[p].data.result = FALSE
      /\ loc[p].message_count >= 4 /\ resp[p].data.draw = 0 => resp[p].data.result = FALSE
      /\ loc[p].message_count >= 4 /\ resp[p].data.draw = 9 => resp[p].data.result = TRUE

C9_Witness ==
  \E p \in Procs :
    /\ pc[p] = "done" /\ req[p].kind = "should_generate_offer"
    /\ loc[p].message_count = 3 /\ req[p].message = "Too EXPENSIVE"
    /\ resp[p].data.draw = 9 /\ resp[p].data.result = FALSE

IsPrefix(s, t) == Len(s) <= Len(t) /\ SubSeq(t, 1, Len(s)) = s

(* C10: a Start request with all four fields is answered 200 (500 when a  *)
(* store operation raised); the returned conversation is active with      *)
(* outcome null and one message, from the ai; no step of the invocation   *)
(* changes a conversation, message or offer stored before; and, calls     *)
(* serialized, the store then holds that conversation under the newest id *)
(* with exactly that message.                                              *)
C10_StartCreatesFreshConversation ==
  [][\A p \in Procs :
       /\ (req[p].kind = "start" \/ req'[p].kind = "start") /\ Moves(p)
            => /\ IsPrefix(conversations_table, conversations_table')
               /\ IsPrefix(messages_table, messages_table')
               /\ offers_table' = offers_table
       /\ pc[p] = "s_put_conv" /\ pc'[p] = "s_put_msg"
            => /\ Len(conversations_table') = Len(conversations_table) + 1
               /\ loc'[p].conversation_id = Len(conversations_table')
       /\ req[p].kind = "start" /\ InFlight(p) /\ pc'[p] = "done"
            => \/ raised'[p] /\ resp'[p].statusCode = 500
               \/ /\ ~raised'[p]
                  /\ resp'[p].statusCode = 200
                  /\ resp'[p].data.conversation.status = "active"
                  /\ resp'[p].data.conversation.outcome = "null"
                  /\ Len(resp'[p].data.messages) = 1
                  /\ resp'[p].data.messages[1].sender = "ai"
                  /\ ~overlap =>
                       /\ resp'[p].data.id = Len(conversations_table')
                       /\ conversations_table'[resp'[p].data.id] = resp'[p].data.conversation
                       /\ ByConversation(messages_table', resp'[p].data.id) = resp'[p].data.messages]_vars

C10_Witness ==
  \E p \in Procs :
    /\ pc[p] = "done" /\ req[p].kind = "start" /\ resp[p].statusCode = 200
    /\ resp[p].data.id = 2 /\ ~overlap

(* C11: a successful Offer Handler call writes, in this order, the offer's *)
(* status (accepted for accept, rejected for reject), the conversation    *)
(* (status completed, outcome retained for accept, cancelled for reject)  *)
(* and one closing message with sender ai under that conversation, each   *)
(* write touching that one record only, and returns 200 with the same     *)
(* outcome and that message.                                               *)
C11_OfferResolution ==
  [][\A p \in Procs :
       req[p].kind = "offer" /\ Moves(p) /\ ~raised'[p] =>
         LET cid == req[p].conversationId
             oid == req[p].offerId
             accept == req[p].action = "accept"
         IN /\ pc[p] = "o_get_offer" /\ pc'[p] # "done" => pc'[p] = "o_upd_offer" /\ tables' = tables
            /\ pc[p] = "o_upd_offer" =>
                 /\ pc'[p] = "o_upd_conv"
                 /\ offers_table' = [offers_table EXCEPT
                      ![oid].status = IF accept THEN "accepted" ELSE "rejected"]
                 /\ conversations_table' = conversations_table
                 /\ messages_table' = messages_table
            /\ pc[p] = "o_upd_conv" =>
                 /\ pc'[p] = "o_put_msg"
                 /\ conversations_table' = [conversations_table EXCEPT
                      ![cid].status = "completed",
                      ![cid].outcome = IF accept THEN "retained" ELSE "cancelled",
                      ![cid].updatedAt = loc[p].timestamp]
                 /\ offers_table' = offers_table
                 /\ messages_table' = messages_table
            /\ pc[p] = "o_put_msg" =>
                 /\ pc'[p] = "done"
                 /\ Len(messages_table') = Len(messages_table) + 1
                 /\ IsPrefix(messages_table, messages_table')
                 /\ messages_table'[Len(messages_table')].sender = "ai"
                 /\ messages_table'[Len(messages_table')].conversationId = cid
                 /\ conversations_table' = conversations_table
                 /\ offers_table' = offers_table
                 /\ resp'[p].statusCode = 200
                 /\ resp'[p].data.outcome = (IF accept THEN "retained" ELSE "cancelled")
                 /\ resp'[p].data.message = messages_table'[Len(messages_table')]]_vars

C11_Witness ==
  \E p \in Procs :
    /\ pc[p] = "done" /\ req[p].kind = "offer" /\ req[p].action = "reject"
    /\ resp[p].statusCode = 200 /\ resp[p].data.outcome = "cancelled"
    /\ offers_table[req[p].offerId].status = "rejected"
    /\ Conv(req[p].conversationId).status = "completed"

Sorted(items) ==
  \A i, j \in DOMAIN items : i < j => items[i].timestamp <= items[j].timestamp

SameItems(s, t) ==
  /\ Len(s) = Len(t)
  /\ \A m \in Range(s) \cup Range(t) :
       Cardinality({i \in DOMAIN s : s[i] = m}) = Cardinality({i \in DOMAIN t : t[i] = m})

(* C12: the Read Handler changes no table; for an unknown id it returns   *)
(* 404; for an existing conversation, no store operation raising, it      *)
(* returns 200 with exactly the messages stored for the conversation, in  *)
(* non-decreasing timestamp order, and exactly the offers stored for it.  *)
C12_ReadReturnsStoredRecords ==
  [][\A p \in Procs :
       req[p].kind = "read" /\ InFlight(p) /\ Moves(p) =>
         LET cid == req[p].conversationId
         IN /\ tables' = tables
            /\ pc[p] = "r_get" /\ ~raised'[p] =>
                 IF cid \in ConvIds THEN pc'[p] = "r_msgs"
                 ELSE pc'[p] = "done" /\ resp'[p].statusCode = 404
            /\ pc[p] = "r_msgs" /\ ~raised'[p] =>
                 /\ pc'[p] = "r_offers"
                 /\ Sorted(loc'[p].messages)
                 /\ SameItems(loc'[p].messages, ByConversation(messages_table, cid))
            /\ pc[p] = "r_offers" /\ ~raised'[p] =>
                 /\ pc'[p] = "done"
                 /\ resp'[p].statusCode = 200
                 /\ resp'[p].data.messages = loc[p].messages
                 /\ resp'[p].data.offers = ByConversation(offers_table, cid)]_vars

(* C13 as stated: within a conversation the messages are in ascending     *)
(* timestamp order in the order they were inserted, for any interleaving  *)
(* of concurrent invocations.                                              *)
C13_InsertionOrderIsTimestampOrder ==
  \A c \in ConvIds : Sorted(ByConversation(messages_table, c))

(* C13 amended: under serialized invocations, within a conversation the   *)
(* messages are in ascending timestamp order in the order they were       *)
(* inserted.                                                               *)
C13_InsertionOrderSerialized ==
  ~overlap => \A c \in ConvIds : Sorted(ByConversation(messages_table, c))

C13_Witness ==
  /\ ~overlap
  /\ \E i, j \in MsgIdx :
       /\ i < j /\ messages_table[i].conversationId = messages_table[j].conversationId
       /\ messages_table[i].timestamp < messages_table[j].timestamp
  /\ \E p \in Procs : pc[p] = "done" /\ req[p].kind = "offer" /\ resp[p].statusCode = 200

RequiredFields(kind) ==
  CASE kind = "start" -> <<"userId", "subscriptionId", "reason", "reasonText">>
    [] kind = "message" -> <<"conversationId", "message", "userId">>
    [] kind = "offer" -> <<"conversationId", "offerId", "action", "userId">>

(* C14: in the Start, Message and Offer handlers a request whose JSON      *)
(* object lacks a required field is answered 400 naming the first missing *)
(* field in the declared order, and an Offer Handler request with every   *)
(* field and an action that is neither accept nor reject is answered 400, *)
(* in both cases at once, before any store read or write, whether or not  *)
(* the conversation it names exists.                                       *)
C14_ValidationIsEager ==
  [][\A p \in Procs :
       pc[p] = "idle" /\ Moves(p) /\ req'[p].kind \in {"start", "message", "offer"}
       /\ req'[p].body = "ok" =>
         LET fields == RequiredFields(req'[p].kind)
             missing == {i \in DOMAIN fields : fields[i] \notin req'[p].present}
         IN /\ missing # {} =>
                 /\ pc'[p] = "done" /\ tables' = tables
                 /\ resp'[p].statusCode = 400
                 /\ \E i \in missing :
                      /\ \A j \in missing : i <= j
                      /\ resp'[p].error = MissingField(fields[i])
            /\ missing = {} /\ req'[p].kind = "offer" /\ req'[p].action \notin {"accept", "reject"} =>
                 /\ pc'[p] = "done" /\ tables' = tables
                 /\ resp'[p].statusCode = 400
                 /\ resp'[p].error = "Action must be \"accept\" or \"reject\""]_vars

C14_Witness ==
  \E p \in Procs :
    /\ pc[p] = "done" /\ req[p].kind = "offer" /\ req[p].action = "maybe"
    /\ req[p].conversationId = UnknownConv /\ resp[p].statusCode = 400
    /\ conversations_table # <<>>

KnownReasons == {"too_expensive", "not_using", "technical_issues", "found_alternative"}
Titles(pair) == {pair[i].title : i \in DOMAIN pair}

(* C15: generate_retention_offer returns a pending offer of type discount *)
(* or pause that is a member of the pair selected for the reason; each of *)
(* the four known reasons has a pair of its own, sharing no offer with    *)
(* the pair of another known reason or with the default pair, and every   *)
(* other reason gets the default pair.                                     *)
C15_KnownReasonsHaveOwnPairs ==
  \A p \in Procs :
    pc[p] = "done" /\ req[p].kind = "generate_retention_offer" =>
      LET offer == resp[p].data.offer
          reason == req[p].reason
      IN /\ offer.status = "pending"
         /\ offer.type \in {"discount", "pause"}
         /\ offer.title \in Titles(offer_types(reason))
         /\ reason \in KnownReasons =>
              /\ offer.title \notin Titles(offer_types("other"))
              /\ \A other \in KnownReasons \ {reason} :
                   offer.title \notin Titles(offer_types(other))
         /\ reason \notin KnownReasons => offer.title \in Titles(offer_types("other"))

(* C16: every invocation of each of the four handlers, whatever the       *)
(* request and whichever store operation fails, comes to its end with a   *)
(* response whose statusCode is 200, 400, 404 or 500; there is no         *)
(* response before the end and the response does not change after it.     *)
C16_EveryInvocationResponds ==
  /\ [](\A p \in Procs :
         /\ pc[p] = "done" => resp[p].statusCode \in {200, 400, 404, 500}
         /\ pc[p] # "done" => resp[p] = NoResp)
  /\ [][\A p \in Procs : pc[p] = "done" /\ pc'[p] = "done" => resp'[p] = resp[p]]_vars
  /\ \A p \in Procs : InFlight(p) ~> pc[p] = "done"

C16_Witness ==
  \E p \in Procs :
    /\ pc[p] = "done" /\ req[p].kind = "read" /\ req[p].body = "ok"
    /\ resp[p].statusCode = 500 /\ ~raised[p]

(* C17: when the conversation update or the closing-message put of an     *)
(* Offer Handler invocation raises, the invocation returns 500 and undoes *)
(* nothing: the tables stay as the earlier writes left them, the offer    *)
(* accepted or rejected, and, when it is the put that raised, the         *)
(* conversation completed.                                                 *)
C17_NoRollback ==
  [][\A p \in Procs :
       req[p].kind = "offer" /\ pc[p] \in {"o_upd_conv", "o_put_msg"} /\ Moves(p) /\ raised'[p] =>
         /\ pc'[p] = "done"
         /\ resp'[p].statusCode = 500
         /\ tables' = tables
         /\ offers_table'[req[p].offerId].status \in {"accepted", "rejected"}
         /\ pc[p] = "o_put_msg" => conversations_table'[req[p].conversationId].status = "completed"]_vars

(* An offer is accepted while its conversation is still active. *)
C17_Witness ==
  \E p \in Procs :
    /\ pc[p] = "done" /\ req[p].kind = "offer" /\ raised[p] /\ resp[p].statusCode = 500
    /\ req[p].conversationId \in ConvIds /\ req[p].offerId \in OfferIds
    /\ offers_table[req[p].offerId].status = "accepted"
    /\ Conv(req[p].conversationId).status = "active"
    /\ Conv(req[p].conversationId).outcome = "null"

(* A conversation is completed and holds no closing message. *)
C17_CompletedWithoutClosingMessage ==
  \E p \in Procs :
    /\ pc[p] = "done" /\ req[p].kind = "offer" /\ raised[p] /\ resp[p].statusCode = 500
    /\ req[p].conversationId \in ConvIds
    /\ Conv(req[p].conversationId).status = "completed"
    /\ \A i \in MsgIdx : messages_table[i].content.template # "final"

(* C18: a Message Handler invocation changes no field of a conversation   *)
(* record other than updatedAt, creates and removes no conversation,      *)
(* changes no message and no offer stored before, and on success has set  *)
(* updatedAt of its conversation.                                          *)
C18_MessageHandlerFrame ==
  [][\A p \in Procs :
       /\ pc[p] = "idle" /\ Moves(p) /\ req'[p].kind = "message" => tables' = tables
       /\ req[p].kind = "message" /\ InFlight(p) /\ Moves(p) =>
            /\ Len(conversations_table') = Len(conversations_table)
            /\ \A c \in ConvIds :
                 /\ conversations_table'[c].status = Conv(c).status
                 /\ conversations_table'[c].outcome = Conv(c).outcome
                 /\ conversations_table'[c].userId = Conv(c).userId
                 /\ conversations_table'[c].subscriptionId = Conv(c).subscriptionId
                 /\ conversations_table'[c].reason = Conv(c).reason
                 /\ conversations_table'[c].reasonText = Conv(c).reasonText
                 /\ conversations_table'[c].createdAt = Conv(c).createdAt
                 /\ c # req[p].conversationId => conversations_table'[c] = Conv(c)
            /\ IsPrefix(messages_table, messages_table')
            /\ IsPrefix(offers_table, offers_table')
            /\ pc'[p] = "done" /\ resp'[p].statusCode = 200 =>
                 conversations_table'[req[p].conversationId].updatedAt = loc[p].timestamp]_vars

C18_Witness ==
  \E p \in Procs :
    /\ pc[p] = "done" /\ req[p].kind = "message" /\ resp[p].statusCode = 200
    /\ Conv(req[p].conversationId).status = "completed"
    /\ Conv(req[p].conversationId).updatedAt = 1
    /\ Conv(req[p].conversationId).createdAt = 0

(* C19: no step of any handler changes or removes a stored message: the   *)
(* message table before a step is a prefix of the table after it.         *)
C19_MessagesAppendOnly == [][IsPrefix(messages_table, messages_table')]_vars

C19_Witness ==
  \E p, q \in Procs :
    /\ pc[p] = "done" /\ req[p].kind = "message" /\ resp[p].statusCode = 200
    /\ pc[q] = "done" /\ req[q].kind = "offer" /\ resp[q].statusCode = 200
    /\ Len(messages_table) >= 4

(* C20: a Message Handler invocation stores the user message and then the *)
(* AI reply, both under the one timestamp it took, and on success has set *)
(* the conversation's updatedAt to that timestamp and returns that reply. *)
C20_OneTimestampPerExchange ==
  [][\A p \in Procs :
       req[p].kind = "message" /\ InFlight(p) /\ Moves(p) =>
         LET last == messages_table'[Len(messages_table')]
             cid == req[p].conversationId
         IN /\ pc[p] \in {"m_put_user", "m_put_ai", "m_count", "m_put_offer"} /\ pc'[p] # "done" =>
                 loc'[p].timestamp = loc[p].timestamp
            /\ pc[p] = "m_put_user" /\ pc'[p] # "done" =>
                 /\ pc'[p] = "m_put_ai"
                 /\ Len(messages_table') = Len(messages_table) + 1
                 /\ last.sender = "user" /\ last.conversationId = cid
                 /\ last.timestamp = loc[p].timestamp
            /\ pc[p] = "m_put_ai" /\ pc'[p] # "done" =>
                 /\ pc'[p] = "m_count"
                 /\ Len(messages_table') = Len(messages_table) + 1
                 /\ last.sender = "ai" /\ last.conversationId = cid
                 /\ last.timestamp = loc[p].timestamp
            /\ pc'[p] = "done" /\ resp'[p].statusCode = 200 =>
                 /\ conversations_table'[cid].updatedAt = loc[p].timestamp
                 /\ resp'[p].data.message.sender = "ai"
                 /\ resp'[p].data.message.timestamp = loc[p].timestamp
                 /\ \E i, j \in DOMAIN messages_table' :
                      /\ i < j
                      /\ messages_table'[i] =
                           Message(cid, UserContent(req[p].message), "user", loc[p].timestamp)
                      /\ messages_table'[j] = resp'[p].data.message]_vars

C20_Witness ==
  \E p \in Procs :
    /\ pc[p] = "done" /\ req[p].kind = "message" /\ resp[p].statusCode = 200
    /\ resp[p].data.message.timestamp = 1
    /\ Conv(req[p].conversationId).updatedAt = 1
    /\ \E i \in MsgIdx : messages_table[i].sender = "user" /\ messages_table[i].timestamp = 1

(* C21: in any interleaving, a step changes the status of a stored offer  *)
(* only as the offer update of an Offer Handler request that names that   *)
(* offer, whose conversationId is the offer's conversationId and whose    *)
(* userId is the stored userId of that conversation; no step changes any  *)
(* other field of a stored offer.                                          *)
C21_OnlyTheOwnerResolvesAnOffer ==
  [][\A o \in OfferIds :
       /\ o \in DOMAIN offers_table'
       /\ [offers_table'[o] EXCEPT !.status = offers_table[o].status] = offers_table[o]
       /\ offers_table'[o].status # offers_table[o].status =>
            \E p \in Procs :
              /\ req[p].kind = "offer" /\ pc[p] = "o_upd_offer" /\ pc'[p] = "o_upd_conv"
              /\ req[p].offerId = o
              /\ req[p].conversationId = offers_table[o].conversationId
              /\ req[p].conversationId \in ConvIds
              /\ req[p].userId = Conv(req[p].conversationId).userId]_vars

C21_Witness ==
  \E p, q \in Procs :
    /\ pc[p] = "done" /\ req[p].kind = "offer" /\ resp[p].statusCode = 404
    /\ resp[p].error = "Offer not found"
    /\ req[p].offerId \in OfferIds
    /\ offers_table[req[p].offerId].conversationId # req[p].conversationId
    /\ offers_table[req[p].offerId].status = "pending"
    /\ pc[q] = "done" /\ req[q].kind = "start" /\ resp[q].statusCode = 200
    /\ resp[q].data.id = req[p].conversationId

(* C22: in any interleaving, an offer whose status is accepted or         *)
(* rejected has status accepted or rejected after every step; no offer is *)
(* removed; and a new offer is a new record, pending, put by the Message  *)
(* Handler.                                                                *)
C22_NeverPendingAgain ==
  [][/\ \A o \in OfferIds :
          /\ o \in DOMAIN offers_table'
          /\ offers_table[o].status \in {"accepted", "rejected"} =>
               offers_table'[o].status \in {"accepted", "rejected"}
     /\ Len(offers_table') # Len(offers_table) =>
          /\ Len(offers_table') = Len(offers_table) + 1
          /\ offers_table'[Len(offers_table')].status = "pending"
          /\ \E p \in Procs :
               req[p].kind = "message" /\ pc[p] = "m_put_offer" /\ pc'[p] = "m_touch"]_vars

C22_Witness ==
  \E p, q \in Procs :
    /\ pc[p] = "done" /\ req[p].kind = "offer" /\ resp[p].statusCode = 200
    /\ pc[q] = "done" /\ req[q].kind = "offer" /\ resp[q].statusCode = 200
    /\ req[p].offerId = req[q].offerId /\ req[p].action = "accept" /\ req[q].action = "reject"
    /\ offers_table[req[p].offerId].status = "accepted"

(* C23: in every reachable state, store failures in the middle of a       *)
(* handler included, the conversationId of every stored message and of    *)
(* every stored offer is the id of a stored conversation.                 *)
C23_ReferentialIntegrity ==
  /\ \A i \in MsgIdx : messages_table[i].conversationId \in ConvIds
  /\ \A o \in OfferIds : offers_table[o].conversationId \in ConvIds

C23_Witness ==
  \E p, q \in Procs :
    /\ pc[p] = "done" /\ req[p].kind = "start" /\ raised[p] /\ resp[p].statusCode = 500
    /\ Len(conversations_table) = 2
    /\ ByConversation(messages_table, 2) = <<>>
    /\ pc[q] = "done" /\ req[q].kind = "message" /\ raised[q] /\ resp[q].statusCode = 500
    /\ Len(messages_table) = 7 /\ Len(offers_table) = 1

====
